---- MODULE Spec2Model ----
(***************************************************************************)
(* Model of the coin collection manager (src/coinpresent/script.js):       *)
(* the in-memory collection of coins with their annotation markers and     *)
(* media, the annotation modes, the localStorage snapshot written by       *)
(* saveToStorage / handleStorageQuotaExceeded, image upload and export.    *)
(*                                                                         *)
(* A data URL is modelled by its length in characters, JSON text by the    *)
(* value it encodes together with the length JSON.stringify gives it.      *)
(***************************************************************************)
EXTENDS Integers, Sequences, FiniteSets, TLC

VARIABLES
    pc,                 \* "unloaded" | "loaded" (loadFromStorage done) | "ready"
    coins,              \* this.coins
    currentMode,        \* this.currentMode
    nextCoinId,         \* this.nextCoinId
    nextAnnotationId,   \* this.nextAnnotationId
    expandedCoins,      \* this.expandedCoins (a JS Set: insertion-ordered, no duplicates)
    selectedAnnotation, \* this.selectedAnnotation
    quickAnnotationType,\* this.quickAnnotationType
    storage,            \* localStorage: keys coinCollection, coinCollectionMeta
    quota,              \* characters localStorage accepts for the two keys
    pendingSave,        \* the saveToStorage call suspended at an await, or Idle
    drag,               \* the listeners handleAnnotationMouseDown installed, or NoDrag
    uploads,            \* compressImage promises of handleImageUpload still pending
    exported,           \* what exportCollection last handed to performExport
    saveOutcome,        \* history: how the handler's saveToStorage call ended
    lastWrite,          \* history: the snapshot the handler wrote, by which path
    savedMem,           \* history: the state at the last save, if that save succeeded
    comparisonMode,     \* this.comparisonMode
    comparisonSlots,    \* this.comparisonSlots: two slots, each <<>> (null) or <<coin>>
    aiServices,         \* ai-orchestrator.js: aiServices, a service being set or null
    aiInit,             \* ai-orchestrator.js: the three initialize...().then promises
    lastAnalysis,       \* history: the last analyzeCoinImages call and how it ended
    searchShown,        \* the market search results displayed, with their query
    sent,               \* history: the requests made to external servers
    mediaSortMode,      \* this.mediaSortMode
    mediaFilter,        \* this.mediaFilter
    galleryMedia,       \* coin.media of a coin with curated, featured and tagged items
    displayList,        \* the displayList renderMediaGallery last rendered for it
    sortCall,           \* history: the last applyMediaSort call, or NoSortCall
    clock,              \* Date.now(), in seconds
    ticks,              \* how often the clock was advanced
    signedUrlCache,     \* storage.js: signedUrlCache, an entry or NoEntry per path
    sessionCache,       \* sessionStorage: the value under rarecoin_signed_urls
    storageInitialized, \* storage.js: storageInitialized
    requests,           \* the getSignedMediaUrl calls waiting for createSignedUrl
    lastReturn,         \* history: what getSignedMediaUrl last returned
    lastLoad            \* history: the last loadCacheFromSession that found a value

\* the collection manager's fields, localStorage and the history of its saves
pageVars == <<pc, coins, currentMode, nextCoinId, nextAnnotationId, expandedCoins,
              selectedAnnotation, quickAnnotationType, storage, quota, pendingSave,
              drag, uploads, exported, saveOutcome, lastWrite, savedMem>>

compareVars == <<comparisonMode, comparisonSlots>>

\* the state of the modules beside the collection manager
galleryVars == <<mediaSortMode, mediaFilter, galleryMedia, displayList, sortCall>>

cacheVars == <<clock, ticks, signedUrlCache, sessionCache, storageInitialized, requests,
               lastReturn, lastLoad>>

others == <<aiServices, aiInit, lastAnalysis, searchShown, sent, galleryVars, cacheVars>>

vars == <<pc, coins, currentMode, nextCoinId, nextAnnotationId, expandedCoins,
          selectedAnnotation, quickAnnotationType, storage, quota, pendingSave,
          drag, uploads, exported, saveOutcome, lastWrite, savedMem,
          compareVars, others>>

(***************************** bounds **************************************)
MaxCoinId == 2
MaxNewAnnotations == 2
MaxMediaPerCoin == 1
MaxPendingUploads == 1

(************************** program constants ******************************)
NoImage == 0            \* images[side] = null
NoSelection == 0        \* selectedAnnotation = null
NoQuickType == ""       \* quickAnnotationType = null
Sides == <<"obverse", "reverse">>
SideSet == {"obverse", "reverse"}
Modes == {"annotate", "move", "view"}
FirstCoinId == 1
FirstAnnotationId == 1000
CompressMinLen == 100000
StorageThreshold == 4 * 1024 * 1024
AnnotationColors == <<"#f97316", "#06b6d4", "#ef4444", "#10b981", "#8b5cf6", "#f59e0b">>
DefaultLabel == "New annotation"

\* JSON.stringify lengths of the fixed parts of the objects the code builds
CoinJsonLen == 793
AnnotationJsonLen == 64
MediaJsonLen == 135
MetaJsonLen == 59

(************************** inputs of the model ****************************)
\* pointer positions relative to the overlay
Points == {<<150, 100>>, <<40, 60>>}
\* the preset buttons of the annotation toolbar
QuickTypes == {"Date"}
\* what the user types into the annotation modal
ModalInputs == {[label |-> "Mint mark", color |-> "#ffffff"]}
\* files offered to the file inputs: MIME class and data URL length
Files == {[type |-> "image", len |-> 50000],
          [type |-> "image", len |-> 2200000],
          [type |-> "video", len |-> 50000]}
NoFile == [type |-> "none", len |-> 0]
\* length of the JPEG data URL canvas.toDataURL gives in compressDataUrl
CompressedLen == 60000
\* length of the JSON text of one analysis result of the offline model
AnalysisResultLen == 1000
\* characters the browser still accepts under the two keys: an origin with 5MB
\* (UTF-16) free, and one whose storage is full but for the sample coin
Quotas == {1047, (5 * 1024 * 1024) \div 2}
ExportFormats == {"json", "csv", "html", "pdf"}

(******************************* helpers ***********************************)
Range(s) == {s[i] : i \in DOMAIN s}

RECURSIVE SumSeq(_)
SumSeq(s) == IF s = <<>> THEN 0 ELSE Head(s) + SumSeq(Tail(s))

\* Array.prototype.findIndex: the first index whose coin has this id, 0 if none
FindCoin(cs, coinId) ==
    IF \E i \in DOMAIN cs : cs[i].id = coinId
    THEN CHOOSE i \in DOMAIN cs : cs[i].id = coinId /\ \A j \in 1..(i - 1) : cs[j].id # coinId
    ELSE 0

AllAnnotations(cs) ==
    [i \in DOMAIN cs |-> cs[i].annotations]

(************************ coins as addCoin builds them *********************)
SampleAnnotations ==
    [obverse |-> << [id |-> 1001, x |-> 150, y |-> 100, label |-> "Portrait", color |-> "#f97316"],
                    [id |-> 1002, x |-> 200, y |-> 250, label |-> "Date Area", color |-> "#06b6d4"] >>,
     reverse |-> << [id |-> 1003, x |-> 180, y |-> 120, label |-> "Main Device", color |-> "#ef4444"] >>]

NoAnnotations == [obverse |-> <<>>, reverse |-> <<>>]

NewCoin(id, isSample) ==
    [id          |-> id,
     title       |-> IF isSample THEN "Sample Coin" ELSE "Coin",
     description |-> IF isSample THEN "sample description" ELSE "new coin description",
     images      |-> [obverse |-> NoImage, reverse |-> NoImage],
     media       |-> [images |-> <<>>, videos |-> <<>>],
     annotations |-> IF isSample THEN SampleAnnotations ELSE NoAnnotations,
     metadata    |-> "metadata",
     condition   |-> "condition",
     valuation   |-> "valuation",
     notes       |-> "",
     created     |-> "now",
     modified    |-> "now"]

(****************** JSON.stringify / JSON.parse of the state ***************)
\* length of a data URL field: null, or the quoted string
ImageJsonLen(img) == IF img = NoImage THEN 4 ELSE img + 2

MediaListJsonLen(ms) ==
    SumSeq([j \in DOMAIN ms |-> MediaJsonLen + ms[j].url])

\* ,"aiAnalysis":{"obverse":null,"reverse":null} with an analysis in place of a null
AnalysisJsonLen(c) ==
    IF "aiAnalysis" \in DOMAIN c
    THEN 45 + (IF c.aiAnalysis.obverse THEN AnalysisResultLen - 4 ELSE 0)
            + (IF c.aiAnalysis.reverse THEN AnalysisResultLen - 4 ELSE 0)
    ELSE 0

CoinLen(c) ==
    CoinJsonLen
    + AnalysisJsonLen(c)
    + ImageJsonLen(c.images.obverse) - 4
    + ImageJsonLen(c.images.reverse) - 4
    + MediaListJsonLen(c.media.images) + MediaListJsonLen(c.media.videos)
    + AnnotationJsonLen * (Len(c.annotations.obverse) + Len(c.annotations.reverse))

\* JSON.stringify(this.coins).length
CoinsJsonLen(cs) == 2 + SumSeq([i \in DOMAIN cs |-> CoinLen(cs[i])])

\* the object saveToStorage builds for coinCollectionMeta; Array.from(Set) keeps
\* the insertion order
MetaOf(ncid, naid, exp) ==
    [nextCoinId |-> ncid, nextAnnotationId |-> naid, expandedCoins |-> exp]

MetaLen(m) == MetaJsonLen + 2 * Len(m.expandedCoins)

\* a stored JSON text: the value it encodes and its length
CoinsText(cs) == [present |-> TRUE, value |-> cs, len |-> CoinsJsonLen(cs)]
MetaText(m) == [present |-> TRUE, value |-> m, len |-> MetaLen(m)]

\* localStorage.getItem gives null for a key never written
NoCoinsText == [present |-> FALSE, value |-> <<>>, len |-> 0]
NoMetaText == [present |-> FALSE, value |-> MetaOf(0, 0, <<>>), len |-> 0]
EmptyStore == [coinCollection |-> NoCoinsText, coinCollectionMeta |-> NoMetaText]

TextLen(t) == IF t.present THEN t.len ELSE 0

EstimatedSize(cs, m) == (CoinsJsonLen(cs) + MetaLen(m)) * 2

StoredEstimate(st) == (TextLen(st.coinCollection) + TextLen(st.coinCollectionMeta)) * 2

\* localStorage.setItem raises QuotaExceededError when the two values together
\* no longer fit
SetItemFits(st, key, text) ==
    LET other == IF key = "coinCollection" THEN st.coinCollectionMeta ELSE st.coinCollection
    IN  text.len + TextLen(other) <= quota

SetItem(st, key, text) == [st EXCEPT ![key] = text]

\* new Set(array)
RECURSIVE Dedup(_)
Dedup(s) ==
    IF s = <<>> THEN <<>>
    ELSE LET rest == Dedup(SelectSeq(Tail(s), LAMBDA e : e # Head(s)))
         IN  <<Head(s)>> \o rest

\* value || fallback for numbers
OrDefault(n, fallback) == IF n = 0 THEN fallback ELSE n

Defaults == [coins |-> <<>>, nextCoinId |-> FirstCoinId,
             nextAnnotationId |-> FirstAnnotationId, expandedCoins |-> <<>>]

\* loadFromStorage that reads the expanded coins and drops the two counters
LoadFromStorageNoCounters(st, mem) ==
    LET withCoins == IF st.coinCollection.present
                     THEN [mem EXCEPT !.coins = st.coinCollection.value]
                     ELSE mem
    IN  IF st.coinCollectionMeta.present
        THEN [withCoins EXCEPT
                !.expandedCoins = Dedup(st.coinCollectionMeta.value.expandedCoins)]
        ELSE withCoins

\* loadFromStorage, applied to the fields the constructor has just set
LoadFromStorage(st, mem) ==
    LET withCoins == IF st.coinCollection.present
                     THEN [mem EXCEPT !.coins = st.coinCollection.value]
                     ELSE mem
    IN  IF st.coinCollectionMeta.present
        THEN LET metaData == st.coinCollectionMeta.value
             IN  [withCoins EXCEPT
                    !.nextCoinId = OrDefault(metaData.nextCoinId, 1),
                    !.nextAnnotationId = OrDefault(metaData.nextAnnotationId, 1000),
                    !.expandedCoins = Dedup(metaData.expandedCoins)]
        ELSE withCoins

(************* saveToStorage and handleStorageQuotaExceeded ****************)
Idle == [active |-> FALSE, at |-> 0]

NoWrite == [size |-> 0, path |-> "none"]
Wrote(cs, m, path) == [size |-> EstimatedSize(cs, m), path |-> path]

Mem(cs, ncid, naid, exp) ==
    [coins |-> cs, nextCoinId |-> ncid, nextAnnotationId |-> naid, expandedCoins |-> exp]

NotSaved == [valid |-> FALSE, mem |-> Defaults]

\* the places handleStorageQuotaExceeded visits, in loop order
CoinSlots(i, c) ==
    << [coin |-> i, kind |-> "obverse", item |-> 0],
       [coin |-> i, kind |-> "reverse", item |-> 0] >>
    \o [j \in 1..Len(c.media.images) |-> [coin |-> i, kind |-> "media", item |-> j]]

RECURSIVE SlotsFrom(_, _)
SlotsFrom(cs, i) ==
    IF i > Len(cs) THEN <<>> ELSE CoinSlots(i, cs[i]) \o SlotsFrom(cs, i + 1)

Slots(cs) == SlotsFrom(cs, 1)

\* the data URL the loop reads at a slot; a media item keeps its data URL under
\* url, so media.data is undefined
SlotValue(cs, slot) ==
    IF slot.kind = "media" THEN NoImage ELSE cs[slot.coin].images[slot.kind]

Compressible(cs, slot) ==
    SlotValue(cs, slot) # NoImage /\ SlotValue(cs, slot) > CompressMinLen

\* the first slot after position k that the loop compresses, 0 when the loop ends
NextTarget(cs, k) ==
    LET sl == Slots(cs)
        hits == {n \in DOMAIN sl : n > k /\ Compressible(cs, sl[n])}
    IN  IF hits = {} THEN 0 ELSE CHOOSE n \in hits : \A h \in hits : n <= h

\* the retry after compression: both setItem calls inside one try
RetryWrite(cs, m, st) ==
    IF ~SetItemFits(st, "coinCollection", CoinsText(cs))
    THEN [storage |-> st, pending |-> Idle, outcome |-> "alerted", write |-> NoWrite]
    ELSE LET st1 == SetItem(st, "coinCollection", CoinsText(cs))
         IN  IF ~SetItemFits(st1, "coinCollectionMeta", MetaText(m))
             THEN [storage |-> st1, pending |-> Idle, outcome |-> "alerted",
                   write |-> Wrote(cs, m, "retry")]
             ELSE [storage |-> SetItem(st1, "coinCollectionMeta", MetaText(m)),
                   pending |-> Idle, outcome |-> "saved", write |-> Wrote(cs, m, "retry")]

\* handleStorageQuotaExceeded up to its first await: with nothing to compress it
\* alerts and ends, otherwise it waits for compressDataUrl at the first target
HandleStorageQuotaExceeded(cs, st, w) ==
    IF NextTarget(cs, 0) = 0
    THEN [storage |-> st, pending |-> Idle, outcome |-> "alerted", write |-> w]
    ELSE [storage |-> st, pending |-> [active |-> TRUE, at |-> NextTarget(cs, 0)],
          outcome |-> "pending", write |-> w]

\* saveToStorage without the 4MB check
SaveSyncNoThreshold(cs, m, st) ==
    IF ~SetItemFits(st, "coinCollection", CoinsText(cs))
    THEN HandleStorageQuotaExceeded(cs, st, NoWrite)
    ELSE LET st1 == SetItem(st, "coinCollection", CoinsText(cs))
         IN  IF ~SetItemFits(st1, "coinCollectionMeta", MetaText(m))
             THEN HandleStorageQuotaExceeded(cs, st1, Wrote(cs, m, "direct"))
             ELSE [storage |-> SetItem(st1, "coinCollectionMeta", MetaText(m)),
                   pending |-> Idle, outcome |-> "saved", write |-> Wrote(cs, m, "direct")]

\* saveToStorage that writes coinCollection and forgets coinCollectionMeta
SaveSyncNoMeta(cs, m, st) ==
    IF EstimatedSize(cs, m) > StorageThreshold
    THEN HandleStorageQuotaExceeded(cs, st, NoWrite)
    ELSE IF ~SetItemFits(st, "coinCollection", CoinsText(cs))
    THEN HandleStorageQuotaExceeded(cs, st, NoWrite)
    ELSE [storage |-> SetItem(st, "coinCollection", CoinsText(cs)),
          pending |-> Idle, outcome |-> "saved", write |-> Wrote(cs, m, "direct")]

\* saveToStorage up to its first await
SaveSync(cs, m, st) ==
    IF EstimatedSize(cs, m) > StorageThreshold
    THEN HandleStorageQuotaExceeded(cs, st, NoWrite)
    ELSE IF ~SetItemFits(st, "coinCollection", CoinsText(cs))
    THEN HandleStorageQuotaExceeded(cs, st, NoWrite)
    ELSE LET st1 == SetItem(st, "coinCollection", CoinsText(cs))
         IN  IF ~SetItemFits(st1, "coinCollectionMeta", MetaText(m))
             THEN HandleStorageQuotaExceeded(cs, st1, Wrote(cs, m, "direct"))
             ELSE [storage |-> SetItem(st1, "coinCollectionMeta", MetaText(m)),
                   pending |-> Idle, outcome |-> "saved", write |-> Wrote(cs, m, "direct")]

\* the effect of a handler's saveToStorage() call on the store
SaveToStorage(cs, ncid, naid, exp) ==
    LET r == SaveSync(cs, MetaOf(ncid, naid, exp), storage)
    IN  /\ storage' = r.storage
        /\ pendingSave' = r.pending
        /\ saveOutcome' = r.outcome
        /\ lastWrite' = r.write
        /\ savedMem' = IF r.outcome = "saved"
                       THEN [valid |-> TRUE, mem |-> Mem(cs, ncid, naid, exp)]
                       ELSE NotSaved

NoSave == /\ UNCHANGED <<storage, pendingSave, savedMem>>
          /\ saveOutcome' = "none"
          /\ lastWrite' = NoWrite

\* compressDataUrl: the canvas re-encodes the image as JPEG
CompressDataUrl(dataUrl) == CompressedLen

\* img.onload of compressDataUrl fires: the awaited promise resolves, the slot gets
\* the compressed data URL and the loop runs on to its next await or to the retry
SaveImageLoaded ==
    /\ pc = "ready" /\ pendingSave.active
    /\ LET slot == Slots(coins)[pendingSave.at]
           cs == [coins EXCEPT ![slot.coin].images[slot.kind] =
                                  CompressDataUrl(coins[slot.coin].images[slot.kind])]
           next == NextTarget(cs, pendingSave.at)
           r == RetryWrite(cs, MetaOf(nextCoinId, nextAnnotationId, expandedCoins), storage)
       IN  /\ coins' = cs
           /\ IF next # 0
              THEN /\ pendingSave' = [active |-> TRUE, at |-> next]
                   /\ saveOutcome' = "pending"
                   /\ lastWrite' = NoWrite
                   /\ UNCHANGED <<storage, savedMem>>
              ELSE /\ pendingSave' = r.pending
                   /\ saveOutcome' = r.outcome
                   /\ lastWrite' = r.write
                   /\ storage' = r.storage
                   /\ savedMem' = IF r.outcome = "saved"
                                  THEN [valid |-> TRUE,
                                        mem |-> Mem(cs, nextCoinId, nextAnnotationId,
                                                    expandedCoins)]
                                  ELSE NotSaved
    /\ UNCHANGED <<pc, currentMode, nextCoinId, nextAnnotationId, expandedCoins,
                   selectedAnnotation, quickAnnotationType, quota, drag, uploads, exported,
                   compareVars, others>>

\* the image fails to load: compressDataUrl sets no onerror, its promise never
\* settles and the save never resumes
SaveImageError ==
    /\ pc = "ready" /\ pendingSave.active
    /\ pendingSave' = Idle
    /\ saveOutcome' = "hung"
    /\ lastWrite' = NoWrite
    /\ savedMem' = NotSaved
    /\ UNCHANGED <<pc, coins, currentMode, nextCoinId, nextAnnotationId, expandedCoins,
                   selectedAnnotation, quickAnnotationType, storage, quota, drag,
                   uploads, exported, compareVars, others>>

(************************** construction and reload ************************)
\* a collection saved by an earlier session: one coin with an obverse image
PriorCoins ==
    << [NewCoin(1, FALSE) EXCEPT !.images.obverse = 150000] >>

PriorStore ==
    [coinCollection |-> CoinsText(PriorCoins),
     coinCollectionMeta |-> MetaText(MetaOf(2, FirstAnnotationId, <<>>))]

NoSlots == << <<>>, <<>> >>
ServiceNames == {"offline", "proxy", "public"}
NoServices == [offline |-> FALSE, proxy |-> FALSE, public |-> FALSE]
NotInitialized == [s \in ServiceNames |-> "idle"]
NoAnalysis == [called |-> FALSE, services |-> NoServices, service |-> "none",
               error |-> "none", tried |-> <<>>]

NoMedia == [images |-> <<>>, videos |-> <<>>]
NoSortCall == [called |-> FALSE, mode |-> "", mediaList |-> <<>>, after |-> <<>>,
               result |-> <<>>]

\* the paths media are signed for
Paths == {"coins/1/obverse.jpg"}

\* a cache entry {url, expiresAt}; the url is told by the instant it was signed at
NoEntry == [present |-> FALSE, signedAt |-> 0, expiresAt |-> 0]
Entry(signedAt, expiresAt) == [present |-> TRUE, signedAt |-> signedAt, expiresAt |-> expiresAt]
EmptyCache == [p \in Paths |-> NoEntry]
NoSessionValue == [present |-> FALSE, cache |-> EmptyCache]
NoReturn == [returned |-> FALSE, path |-> "", fromCache |-> FALSE, now |-> 0, at |-> 0,
             signedAt |-> 0, entry |-> NoEntry]
NoLoad == [loaded |-> FALSE, at |-> 0, stored |-> EmptyCache, kept |-> EmptyCache]

\* storage.js as the page load evaluates it
CacheIdle ==
    /\ signedUrlCache = EmptyCache
    /\ storageInitialized = FALSE
    /\ requests = {}

\* the modules beside the collection manager as a page load leaves them
ModulesIdle ==
    /\ aiServices = NoServices
    /\ aiInit = NotInitialized
    /\ lastAnalysis = NoAnalysis
    /\ searchShown = {}
    /\ sent = {}

\* constructor: mediaSortMode 'curated', mediaFilter 'all'; nothing rendered yet
GalleryIdle ==
    /\ mediaSortMode = "curated"
    /\ mediaFilter = "all"
    /\ displayList = <<>>
    /\ sortCall = NoSortCall

\* a new tab: sessionStorage is empty
SessionIdle ==
    /\ CacheIdle
    /\ clock = 0
    /\ ticks = 0
    /\ sessionCache = NoSessionValue
    /\ lastReturn = NoReturn
    /\ lastLoad = NoLoad

OthersIdle ==
    /\ ModulesIdle
    /\ GalleryIdle
    /\ galleryMedia = NoMedia
    /\ SessionIdle

\* a reload evaluates the modules again
OthersReload ==
    /\ aiServices' = NoServices
    /\ aiInit' = NotInitialized
    /\ searchShown' = {}
    /\ mediaSortMode' = "curated"
    /\ mediaFilter' = "all"
    /\ displayList' = <<>>
    /\ sortCall' = NoSortCall
    /\ signedUrlCache' = EmptyCache
    /\ storageInitialized' = FALSE
    /\ requests' = {}
    /\ UNCHANGED <<lastAnalysis, sent, galleryMedia, clock, ticks, sessionCache, lastReturn, lastLoad>>

NoDrag == [active |-> FALSE, id |-> 0, coin |-> 0, side |-> "", index |-> 0]
NoExport == [format |-> "", images |-> FALSE, annotations |-> FALSE,
             valuations |-> FALSE, notes |-> FALSE, data |-> <<>>,
             downloaded |-> FALSE, alerted |-> FALSE]

\* the page before the script runs
Unloaded ==
    /\ pc = "unloaded"
    /\ coins = <<>>
    /\ currentMode = "annotate"
    /\ nextCoinId = FirstCoinId
    /\ nextAnnotationId = FirstAnnotationId
    /\ expandedCoins = <<>>
    /\ selectedAnnotation = NoSelection
    /\ quickAnnotationType = NoQuickType
    /\ pendingSave = Idle
    /\ drag = NoDrag
    /\ uploads = {}
    /\ exported = NoExport
    /\ saveOutcome = "none"
    /\ lastWrite = NoWrite
    /\ comparisonMode = FALSE
    /\ comparisonSlots = NoSlots

Init ==
    /\ Unloaded
    /\ OthersIdle
    /\ savedMem = NotSaved
    /\ \/ storage = EmptyStore /\ quota \in Quotas
       \/ storage = PriorStore /\ quota = (5 * 1024 * 1024) \div 2

\* constructor, init(): the fields are set and loadFromStorage reads the store
Construct ==
    /\ pc = "unloaded"
    /\ LET mem == LoadFromStorage(storage, Defaults)
       IN  /\ coins' = mem.coins
           /\ nextCoinId' = mem.nextCoinId
           /\ nextAnnotationId' = mem.nextAnnotationId
           /\ expandedCoins' = mem.expandedCoins
    /\ pc' = "loaded"
    /\ NoSave
    /\ UNCHANGED <<currentMode, selectedAnnotation, quickAnnotationType, quota, drag,
                   uploads, exported, compareVars, others>>

\* init() after loadFromStorage: the sample coin is added to an empty collection
InitSample ==
    /\ pc = "loaded"
    /\ pc' = "ready"
    /\ IF coins = <<>>
       THEN /\ coins' = Append(coins, NewCoin(nextCoinId, TRUE))
            /\ nextCoinId' = nextCoinId + 1
            /\ SaveToStorage(coins', nextCoinId', nextAnnotationId, expandedCoins)
       ELSE /\ UNCHANGED <<coins, nextCoinId>>
            /\ NoSave
    /\ UNCHANGED <<currentMode, nextAnnotationId, expandedCoins, selectedAnnotation,
                   quickAnnotationType, quota, drag, uploads, exported,
                   compareVars, others>>

\* the page is closed or reloaded: memory is lost, localStorage stays
Reload ==
    /\ pc = "ready"
    /\ LET mem == LoadFromStorage(storage, Defaults)
       IN  mem.coins # <<>> \/ mem.nextCoinId <= MaxCoinId
    /\ pc' = "unloaded"
    /\ coins' = <<>>
    /\ currentMode' = "annotate"
    /\ nextCoinId' = FirstCoinId
    /\ nextAnnotationId' = FirstAnnotationId
    /\ expandedCoins' = <<>>
    /\ selectedAnnotation' = NoSelection
    /\ quickAnnotationType' = NoQuickType
    /\ pendingSave' = Idle
    /\ drag' = NoDrag
    /\ uploads' = {}
    /\ exported' = NoExport
    /\ saveOutcome' = "none"
    /\ lastWrite' = NoWrite
    /\ comparisonMode' = FALSE
    /\ comparisonSlots' = NoSlots
    /\ OthersReload
    /\ UNCHANGED <<storage, quota, savedMem>>

\* a click-driven handler of the page runs when the page is up, no save is
\* suspended, no marker is being dragged and the annotation modal is closed
Interactive ==
    /\ pc = "ready"
    /\ ~pendingSave.active
    /\ ~drag.active
    /\ selectedAnnotation = NoSelection

CoinIds(cs) == {cs[i].id : i \in DOMAIN cs}
\* coin ids a handler may be called with, known or not
AnyCoinId == 1..(MaxCoinId + 1)

(****************************** coins **************************************)
AddCoin ==
    /\ Interactive
    /\ nextCoinId <= MaxCoinId
    /\ coins' = Append(coins, NewCoin(nextCoinId, FALSE))
    /\ nextCoinId' = nextCoinId + 1
    /\ SaveToStorage(coins', nextCoinId', nextAnnotationId, expandedCoins)
    /\ UNCHANGED <<pc, currentMode, nextAnnotationId, expandedCoins, selectedAnnotation,
                   quickAnnotationType, quota, drag, uploads, exported,
                   compareVars, others>>

\* deleteCoin with the confirm dialog accepted
DeleteCoin(coinId) ==
    /\ Interactive
    /\ coins' = SelectSeq(coins, LAMBDA c : c.id # coinId)
    /\ SaveToStorage(coins', nextCoinId, nextAnnotationId, expandedCoins)
    /\ UNCHANGED <<pc, currentMode, nextCoinId, nextAnnotationId, expandedCoins,
                   selectedAnnotation, quickAnnotationType, quota, drag, uploads, exported,
                   compareVars, others>>

\* updateCoinField(coinId, 'notes', value) -> updateCoin
UpdateCoin(coinId, notes) ==
    /\ Interactive
    /\ LET i == FindCoin(coins, coinId)
       IN  IF i # 0
           THEN /\ coins' = [coins EXCEPT ![i].notes = notes, ![i].modified = "later"]
                /\ SaveToStorage(coins', nextCoinId, nextAnnotationId, expandedCoins)
           ELSE /\ UNCHANGED coins
                /\ NoSave
    /\ UNCHANGED <<pc, currentMode, nextCoinId, nextAnnotationId, expandedCoins,
                   selectedAnnotation, quickAnnotationType, quota, drag, uploads, exported,
                   compareVars, others>>

\* toggleCoinExpansion (global): Set.delete / Set.add, then saveToStorage
ToggleCoinExpansion(coinId) ==
    /\ Interactive
    /\ coinId \in CoinIds(coins)
    /\ expandedCoins' = IF coinId \in Range(expandedCoins)
                        THEN SelectSeq(expandedCoins, LAMBDA e : e # coinId)
                        ELSE Append(expandedCoins, coinId)
    /\ SaveToStorage(coins, nextCoinId, nextAnnotationId, expandedCoins')
    /\ UNCHANGED <<pc, coins, currentMode, nextCoinId, nextAnnotationId,
                   selectedAnnotation, quickAnnotationType, quota, drag, uploads, exported,
                   compareVars, others>>

\* the document's input / change listeners
AutoSave ==
    /\ Interactive
    /\ SaveToStorage(coins, nextCoinId, nextAnnotationId, expandedCoins)
    /\ UNCHANGED <<pc, coins, currentMode, nextCoinId, nextAnnotationId, expandedCoins,
                   selectedAnnotation, quickAnnotationType, quota, drag, uploads, exported,
                   compareVars, others>>

(****************************** modes **************************************)
SetMode(mode) ==
    /\ Interactive
    /\ currentMode' = mode
    /\ NoSave
    /\ UNCHANGED <<pc, coins, nextCoinId, nextAnnotationId, expandedCoins,
                   selectedAnnotation, quickAnnotationType, quota, drag, uploads, exported,
                   compareVars, others>>

SetQuickAnnotationType(type) ==
    /\ Interactive
    /\ quickAnnotationType' = type
    /\ currentMode' = "annotate"
    /\ NoSave
    /\ UNCHANGED <<pc, coins, nextCoinId, nextAnnotationId, expandedCoins,
                   selectedAnnotation, quota, drag, uploads, exported, compareVars, others>>

(**************************** annotations **********************************)
\* addAnnotation that appends the marker and leaves nextAnnotationId as it was
AddAnnotationBodyKeepsCounter(coinId, side, x, y) ==
    LET i == FindCoin(coins, coinId)
        list == coins[i].annotations[side]
        annotation ==
            [id    |-> nextAnnotationId,
             x     |-> x,
             y     |-> y,
             label |-> IF quickAnnotationType # NoQuickType
                       THEN quickAnnotationType ELSE DefaultLabel,
             color |-> AnnotationColors[(Len(list) % Len(AnnotationColors)) + 1]]
    IN  /\ coins' = [coins EXCEPT ![i].annotations[side] = Append(list, annotation)]
        /\ nextAnnotationId' = nextAnnotationId
        /\ SaveToStorage(coins', nextCoinId, nextAnnotationId', expandedCoins)
        /\ quickAnnotationType' = NoQuickType

\* the body of addAnnotation after its two early returns
AddAnnotationBody(coinId, side, x, y) ==
    LET i == FindCoin(coins, coinId)
        list == coins[i].annotations[side]
        annotation ==
            [id    |-> nextAnnotationId,
             x     |-> x,
             y     |-> y,
             label |-> IF quickAnnotationType # NoQuickType
                       THEN quickAnnotationType ELSE DefaultLabel,
             color |-> AnnotationColors[(Len(list) % Len(AnnotationColors)) + 1]]
    IN  /\ coins' = [coins EXCEPT ![i].annotations[side] = Append(list, annotation)]
        /\ nextAnnotationId' = nextAnnotationId + 1
        /\ SaveToStorage(coins', nextCoinId, nextAnnotationId', expandedCoins)
        /\ quickAnnotationType' = NoQuickType

AddAnnotationEffect(coinId, side, x, y) ==
    IF currentMode # "annotate" \/ FindCoin(coins, coinId) = 0
    THEN /\ UNCHANGED <<coins, nextAnnotationId, quickAnnotationType>>
         /\ NoSave
    ELSE AddAnnotationBody(coinId, side, x, y)

\* within the model's bound on new annotation ids
MayAnnotate(coinId) ==
    (currentMode = "annotate" /\ FindCoin(coins, coinId) # 0)
        => nextAnnotationId < FirstAnnotationId + MaxNewAnnotations

\* coinManager.addAnnotation(coinId, side, x, y)
AddAnnotation(coinId, side, p) ==
    /\ Interactive
    /\ MayAnnotate(coinId)
    /\ AddAnnotationEffect(coinId, side, p[1], p[2])
    /\ UNCHANGED <<pc, currentMode, nextCoinId, expandedCoins, selectedAnnotation,
                   quota, drag, uploads, exported, compareVars, others>>

\* handleImageClick: a click on the overlay of a rendered coin
HandleImageClick(coinId, side, p) ==
    /\ Interactive
    /\ coinId \in CoinIds(coins)
    /\ MayAnnotate(coinId)
    /\ IF currentMode = "annotate"
       THEN AddAnnotationEffect(coinId, side, p[1], p[2])
       ELSE /\ UNCHANGED <<coins, nextAnnotationId, quickAnnotationType>>
            /\ NoSave
    /\ UNCHANGED <<pc, currentMode, nextCoinId, expandedCoins, selectedAnnotation,
                   quota, drag, uploads, exported, compareVars, others>>

\* Object.assign(annotation, updates)
ObjectAssign(a, u) ==
    LET a1 == IF "x" \in DOMAIN u THEN [a EXCEPT !.x = u.x] ELSE a
        a2 == IF "y" \in DOMAIN u THEN [a1 EXCEPT !.y = u.y] ELSE a1
        a3 == IF "label" \in DOMAIN u THEN [a2 EXCEPT !.label = u.label] ELSE a2
    IN  IF "color" \in DOMAIN u THEN [a3 EXCEPT !.color = u.color] ELSE a3

\* Array.prototype.find on an annotation list: index of the first match, 0 if none
FindAnnotation(list, annotationId) ==
    LET hits == {k \in DOMAIN list : list[k].id = annotationId}
    IN  IF hits = {} THEN 0 ELSE CHOOSE k \in hits : \A h \in hits : k <= h

UpdateList(list, annotationId, u) ==
    LET k == FindAnnotation(list, annotationId)
    IN  IF k = 0 THEN list ELSE [list EXCEPT ![k] = ObjectAssign(list[k], u)]

\* updateAnnotation: every coin, both sides, the first annotation with this id
UpdateAnnotation(cs, annotationId, u) ==
    [i \in DOMAIN cs |->
        [cs[i] EXCEPT !.annotations =
            [obverse |-> UpdateList(cs[i].annotations.obverse, annotationId, u),
             reverse |-> UpdateList(cs[i].annotations.reverse, annotationId, u)]]]

\* removeAnnotation: every coin, both sides, every annotation with this id
RemoveAnnotationFrom(cs, annotationId) ==
    [i \in DOMAIN cs |->
        [cs[i] EXCEPT !.annotations =
            [obverse |-> SelectSeq(cs[i].annotations.obverse, LAMBDA a : a.id # annotationId),
             reverse |-> SelectSeq(cs[i].annotations.reverse, LAMBDA a : a.id # annotationId)]]]

\* the markers renderAnnotations puts on the page
Markers ==
    {[coin |-> i, side |-> sd, index |-> k, id |-> coins[i].annotations[sd][k].id] :
        <<i, sd, k>> \in {t \in (DOMAIN coins) \X SideSet \X (1..(3 + MaxNewAnnotations)) :
                            t[3] <= Len(coins[t[1]].annotations[t[2]])}}

\* handleAnnotationMouseDown on a marker: in move mode the document listeners are
\* installed
HandleAnnotationMouseDown(m) ==
    /\ Interactive
    /\ IF currentMode = "move"
       THEN drag' = [active |-> TRUE, id |-> m.id, coin |-> m.coin, side |-> m.side,
                     index |-> m.index]
       ELSE UNCHANGED drag
    /\ NoSave
    /\ UNCHANGED <<pc, coins, currentMode, nextCoinId, nextAnnotationId, expandedCoins,
                   selectedAnnotation, quickAnnotationType, quota, uploads, exported,
                   compareVars, others>>

\* handleMouseMove of a drag: updateAnnotation(annotationId, {x, y})
HandleMouseMove(p) ==
    /\ pc = "ready" /\ ~pendingSave.active /\ drag.active
    /\ coins' = UpdateAnnotation(coins, drag.id, [x |-> p[1], y |-> p[2]])
    /\ SaveToStorage(coins', nextCoinId, nextAnnotationId, expandedCoins)
    /\ UNCHANGED <<pc, currentMode, nextCoinId, nextAnnotationId, expandedCoins,
                   selectedAnnotation, quickAnnotationType, quota, drag, uploads, exported,
                   compareVars, others>>

HandleMouseUp ==
    /\ pc = "ready" /\ drag.active
    /\ drag' = NoDrag
    /\ NoSave
    /\ UNCHANGED <<pc, coins, currentMode, nextCoinId, nextAnnotationId, expandedCoins,
                   selectedAnnotation, quickAnnotationType, quota, uploads, exported,
                   compareVars, others>>

\* editAnnotation (double click on a marker): the modal opens on the annotation
EditAnnotation(m) ==
    /\ Interactive
    /\ selectedAnnotation' = m.id
    /\ NoSave
    /\ UNCHANGED <<pc, coins, currentMode, nextCoinId, nextAnnotationId, expandedCoins,
                   quickAnnotationType, quota, drag, uploads, exported,
                   compareVars, others>>

\* saveAnnotation: the modal's Save button
SaveAnnotation(input) ==
    /\ pc = "ready" /\ ~pendingSave.active
    /\ IF selectedAnnotation # NoSelection
       THEN /\ coins' = UpdateAnnotation(coins, selectedAnnotation,
                                         [label |-> input.label, color |-> input.color])
            /\ SaveToStorage(coins', nextCoinId, nextAnnotationId, expandedCoins)
            /\ selectedAnnotation' = NoSelection
       ELSE /\ UNCHANGED <<coins, selectedAnnotation>>
            /\ NoSave
    /\ UNCHANGED <<pc, currentMode, nextCoinId, nextAnnotationId, expandedCoins,
                   quickAnnotationType, quota, drag, uploads, exported,
                   compareVars, others>>

\* the Escape key: closeAllModals, selectedAnnotation = null
EscapeKey ==
    /\ pc = "ready"
    /\ selectedAnnotation # NoSelection
    /\ selectedAnnotation' = NoSelection
    /\ NoSave
    /\ UNCHANGED <<pc, coins, currentMode, nextCoinId, nextAnnotationId, expandedCoins,
                   quickAnnotationType, quota, drag, uploads, exported,
                   compareVars, others>>

\* removeAnnotation (global) with the confirm dialog accepted; the click then
\* bubbles to the overlay, whose handler is HandleImageClick, a step of its own
RemoveAnnotation(m) ==
    /\ Interactive
    /\ coins' = RemoveAnnotationFrom(coins, m.id)
    /\ SaveToStorage(coins', nextCoinId, nextAnnotationId, expandedCoins)
    /\ UNCHANGED <<pc, currentMode, nextCoinId, nextAnnotationId, expandedCoins,
                   selectedAnnotation, quickAnnotationType, quota, drag, uploads, exported,
                   compareVars, others>>

(************************** images and media *******************************)
\* what the browser makes of img.src: a data URL ("dataUrl") loads as an image,
\* a File object ("objectFile") turns into the string "[object File]" and fails

\* compressImage as the class defines it: of the two methods of that name the
\* later one (dataUrl, quality) replaces the earlier one (file, maxWidth,
\* quality), so handleImageUpload's file becomes img.src and no onerror is set
CompressImageSource(file) == "objectFile"

\* handleImageUpload(coinId, side, fileInput)
HandleImageUpload(coinId, side, file) ==
    /\ Interactive
    /\ IF file.type = "image"
       THEN /\ Cardinality(uploads) < MaxPendingUploads
            /\ uploads' = uploads \cup {[coin |-> coinId, side |-> side,
                                         src |-> CompressImageSource(file),
                                         len |-> file.len]}
       ELSE UNCHANGED uploads
    /\ NoSave
    /\ UNCHANGED <<pc, coins, currentMode, nextCoinId, nextAnnotationId, expandedCoins,
                   selectedAnnotation, quickAnnotationType, quota, drag, exported,
                   compareVars, others>>

\* the image of a pending compressImage loads or fails: on load the promise
\* resolves and handleImageUpload's then-callback stores the data URL and saves;
\* on error nothing is listening and the promise stays pending for good
UploadImageEvent(u) ==
    /\ pc = "ready" /\ ~pendingSave.active
    /\ u \in uploads
    /\ uploads' = uploads \ {u}
    /\ IF u.src = "dataUrl" /\ FindCoin(coins, u.coin) # 0
       THEN /\ coins' = [coins EXCEPT ![FindCoin(coins, u.coin)].images[u.side] = u.len]
            /\ SaveToStorage(coins', nextCoinId, nextAnnotationId, expandedCoins)
       ELSE /\ UNCHANGED coins
            /\ NoSave
    /\ UNCHANGED <<pc, currentMode, nextCoinId, nextAnnotationId, expandedCoins,
                   selectedAnnotation, quickAnnotationType, quota, drag, exported,
                   compareVars, others>>

\* deleteImage with the confirm dialog accepted
DeleteImage(coinId, side) ==
    /\ Interactive
    /\ LET i == FindCoin(coins, coinId)
       IN  IF i # 0
           THEN /\ coins' = [coins EXCEPT ![i].images[side] = NoImage]
                /\ SaveToStorage(coins', nextCoinId, nextAnnotationId, expandedCoins)
           ELSE /\ UNCHANGED coins
                /\ NoSave
    /\ UNCHANGED <<pc, currentMode, nextCoinId, nextAnnotationId, expandedCoins,
                   selectedAnnotation, quickAnnotationType, quota, drag, uploads, exported,
                   compareVars, others>>

MediaIds(c) == {c.media.images[j].id : j \in DOMAIN c.media.images}
                  \cup {c.media.videos[j].id : j \in DOMAIN c.media.videos}

\* media_<Date.now()>_<random>: an id no item of the coin has
NewMediaId(c) == CHOOSE n \in 1..(MaxMediaPerCoin + 1) : n \notin MediaIds(c)

\* handleMediaUpload with one file, through reader.onload: the data URL of the
\* file is kept as it is, under url
HandleMediaUpload(coinId, file) ==
    /\ Interactive
    /\ LET i == FindCoin(coins, coinId)
       IN  IF i # 0
           THEN /\ Cardinality(MediaIds(coins[i])) < MaxMediaPerCoin
                /\ LET mediaItem == [id |-> NewMediaId(coins[i]),
                                     type |-> IF file.type = "video" THEN "video" ELSE "image",
                                     url |-> file.len,
                                     title |-> "file",
                                     description |-> "",
                                     uploadDate |-> "now"]
                   IN  coins' = IF mediaItem.type = "video"
                                THEN [coins EXCEPT ![i].media.videos = Append(@, mediaItem)]
                                ELSE [coins EXCEPT ![i].media.images = Append(@, mediaItem)]
                /\ SaveToStorage(coins', nextCoinId, nextAnnotationId, expandedCoins)
           ELSE /\ UNCHANGED coins
                /\ NoSave
    /\ UNCHANGED <<pc, currentMode, nextCoinId, nextAnnotationId, expandedCoins,
                   selectedAnnotation, quickAnnotationType, quota, drag, uploads, exported,
                   compareVars, others>>

\* removeMedia with the confirm dialog accepted
RemoveMedia(coinId, mediaId) ==
    /\ Interactive
    /\ LET i == FindCoin(coins, coinId)
       IN  IF i # 0
           THEN /\ coins' = [coins EXCEPT
                               ![i].media.images = SelectSeq(@, LAMBDA m : m.id # mediaId),
                               ![i].media.videos = SelectSeq(@, LAMBDA m : m.id # mediaId)]
                /\ SaveToStorage(coins', nextCoinId, nextAnnotationId, expandedCoins)
           ELSE /\ UNCHANGED coins
                /\ NoSave
    /\ UNCHANGED <<pc, currentMode, nextCoinId, nextAnnotationId, expandedCoins,
                   selectedAnnotation, quickAnnotationType, quota, drag, uploads, exported,
                   compareVars, others>>

(***************************** comparison *********************************)
\* toggleComparisonView: leaving the comparison view empties both slots
ToggleComparisonView ==
    /\ Interactive
    /\ comparisonMode' = ~comparisonMode
    /\ comparisonSlots' = IF comparisonMode' THEN comparisonSlots ELSE NoSlots
    /\ NoSave
    /\ UNCHANGED <<pc, coins, currentMode, nextCoinId, nextAnnotationId, expandedCoins,
                   selectedAnnotation, quickAnnotationType, quota, drag, uploads, exported,
                   others>>

\* addToComparison that replaces the second slot when both are taken
AddToComparisonReplacesSecond(slots, cs, coinId) ==
    LET i == FindCoin(cs, coinId)
    IN  IF i = 0 THEN slots
        ELSE IF slots[1] = <<>> THEN [slots EXCEPT ![1] = <<cs[i]>>]
        ELSE [slots EXCEPT ![2] = <<cs[i]>>]

\* the slots addToComparison(coinId) leaves
AddToComparisonSlots(slots, cs, coinId) ==
    LET i == FindCoin(cs, coinId)
    IN  IF i = 0 THEN slots
        ELSE IF slots[1] = <<>> THEN [slots EXCEPT ![1] = <<cs[i]>>]
        ELSE IF slots[2] = <<>> THEN [slots EXCEPT ![2] = <<cs[i]>>]
        ELSE [slots EXCEPT ![1] = <<cs[i]>>]

\* coinManager.addToComparison(coinId)
AddToComparison(coinId) ==
    /\ Interactive
    /\ comparisonSlots' = AddToComparisonSlots(comparisonSlots, coins, coinId)
    /\ UNCHANGED comparisonMode
    /\ NoSave
    /\ UNCHANGED <<pc, coins, currentMode, nextCoinId, nextAnnotationId, expandedCoins,
                   selectedAnnotation, quickAnnotationType, quota, drag, uploads, exported,
                   others>>

\* removeFromComparison: the Remove button of a filled slot
RemoveFromComparison(coinId) ==
    /\ Interactive
    /\ comparisonSlots' =
         IF comparisonSlots[1] # <<>> /\ comparisonSlots[1][1].id = coinId
         THEN [comparisonSlots EXCEPT ![1] = <<>>]
         ELSE IF comparisonSlots[2] # <<>> /\ comparisonSlots[2][1].id = coinId
         THEN [comparisonSlots EXCEPT ![2] = <<>>]
         ELSE comparisonSlots
    /\ UNCHANGED comparisonMode
    /\ NoSave
    /\ UNCHANGED <<pc, coins, currentMode, nextCoinId, nextAnnotationId, expandedCoins,
                   selectedAnnotation, quickAnnotationType, quota, drag, uploads, exported,
                   others>>

ClearComparison ==
    /\ Interactive
    /\ comparisonSlots' = NoSlots
    /\ UNCHANGED comparisonMode
    /\ NoSave
    /\ UNCHANGED <<pc, coins, currentMode, nextCoinId, nextAnnotationId, expandedCoins,
                   selectedAnnotation, quickAnnotationType, quota, drag, uploads, exported,
                   others>>

(************************* AI analysis of an image *************************)
\* analyzeCoinImages asking the offline model first
AnalyzeCoinImagesOfflineFirst(services, throws) ==
    IF services.offline
    THEN [service |-> "offline",
          error |-> IF "offline" \in throws THEN "offline failed" ELSE "none",
          tried |-> <<"offline">>]
    ELSE IF services.proxy /\ "proxy" \notin throws
    THEN [service |-> "proxy", error |-> "none", tried |-> <<"proxy">>]
    ELSE IF services.public /\ "public" \notin throws
    THEN [service |-> "public", error |-> "none", tried |-> <<"public">>]
    ELSE [service |-> "none", error |-> "AI services are not ready yet.", tried |-> <<>>]

\* analyzeCoinImages: proxy, then public, each inside try / catch, then offline,
\* whose result or error is passed on as it is; throws holds the services whose
\* analyze call fails
AnalyzeCoinImages(services, throws) ==
    LET proxyTried == IF services.proxy THEN <<"proxy">> ELSE <<>>
        publicTried == IF services.public THEN proxyTried \o <<"public">> ELSE proxyTried
    IN  IF services.proxy /\ "proxy" \notin throws
        THEN [service |-> "proxy", error |-> "none", tried |-> proxyTried]
        ELSE IF services.public /\ "public" \notin throws
        THEN [service |-> "public", error |-> "none", tried |-> publicTried]
        ELSE IF services.offline
        THEN [service |-> "offline",
              error |-> IF "offline" \in throws THEN "offline failed" ELSE "none",
              tried |-> publicTried \o <<"offline">>]
        ELSE [service |-> "none", error |-> "AI services are not ready yet.",
              tried |-> publicTried]

\* initializeAIOrchestrator, called by initializeServices once the module is
\* imported: the three initializations are started; the proxy and public ones have
\* no await and return a resolved promise, the offline one awaits TensorFlow.js
InitializeAIOrchestrator ==
    /\ pc = "ready"
    /\ aiInit = NotInitialized
    /\ aiInit' = [s \in ServiceNames |-> IF s = "offline" THEN "pending" ELSE "resolved"]
    /\ UNCHANGED <<pageVars, compareVars, aiServices, lastAnalysis, searchShown, sent,
                   galleryVars, cacheVars>>

\* initializeOfflineModel's promise resolves: modelManager.initialize() has ended,
\* with or without TensorFlow.js
OfflineModelInitialized ==
    /\ aiInit.offline = "pending"
    /\ aiInit' = [aiInit EXCEPT !.offline = "resolved"]
    /\ UNCHANGED <<pageVars, compareVars, aiServices, lastAnalysis, searchShown, sent,
                   galleryVars, cacheVars>>

\* the then-callback of one initialization: the service is set
ServiceResolved(s) ==
    /\ aiInit[s] = "resolved"
    /\ aiInit' = [aiInit EXCEPT ![s] = "set"]
    /\ aiServices' = [aiServices EXCEPT ![s] = TRUE]
    /\ UNCHANGED <<pageVars, compareVars, lastAnalysis, searchShown, sent, galleryVars,
                   cacheVars>>

\* the analyze functions of proxyModel.js and publicModel.js return
\* {success: false} and never throw; the one of offlineModel.js catches its errors
StubThrows == {}

\* coin.aiAnalysis[side] = analysis
WithAnalysis(c, side) ==
    LET old == IF "aiAnalysis" \in DOMAIN c THEN c.aiAnalysis
               ELSE [obverse |-> FALSE, reverse |-> FALSE]
    IN  [k \in DOMAIN c \cup {"aiAnalysis"} |->
            IF k = "aiAnalysis" THEN [old EXCEPT ![side] = TRUE] ELSE c[k]]

\* analyzeImage(coinId, side, imageData) as reanalyzeWithAI calls it for a side
\* that has an image; the then-callbacks of resolved promises run before the next
\* handler does; only the offline model can report success
AnalyzeImage(coinId, side, success) ==
    /\ Interactive
    /\ \A s \in ServiceNames : aiInit[s] # "resolved"
    /\ LET i == FindCoin(coins, coinId)
           r == AnalyzeCoinImages(aiServices, StubThrows)
       IN  /\ i # 0
           /\ coins[i].images[side] # NoImage
           /\ IF r.service = "offline" /\ r.error = "none" /\ success
              THEN /\ coins' = [coins EXCEPT ![i] = WithAnalysis(@, side)]
                   /\ SaveToStorage(coins', nextCoinId, nextAnnotationId, expandedCoins)
              ELSE /\ UNCHANGED coins
                   /\ NoSave
           /\ lastAnalysis' = [called |-> TRUE, services |-> aiServices,
                               service |-> r.service, error |-> r.error, tried |-> r.tried]
    /\ UNCHANGED <<pc, currentMode, nextCoinId, nextAnnotationId, expandedCoins,
                   selectedAnnotation, quickAnnotationType, quota, drag, uploads, exported,
                   compareVars, aiServices, aiInit, searchShown, sent, galleryVars, cacheVars>>

(***************************** market search *******************************)
\* the sites of simulateWebSearch's results; query: the result's url carries the
\* search query
SearchSites ==
    {[host |-> "coins.ha.com", query |-> TRUE],
     [host |-> "www.ebay.com", query |-> TRUE],
     [host |-> "www.pcgs.com", query |-> FALSE],
     [host |-> "www.stacksbowers.com", query |-> TRUE],
     [host |-> "www.ngccoin.com", query |-> FALSE],
     [host |-> "www.coinworld.com", query |-> TRUE],
     [host |-> "www.cointalk.com", query |-> TRUE],
     [host |-> "www.conecaonline.org", query |-> FALSE]}

\* a request to an external server and the coin data it carries
Request(host, data) == [host |-> host, data |-> data]
NoCoinData == <<>>

\* searchSimilarCoins: the query is built from the coin's metadata, the results
\* are made up locally and displayed; their pictures come from via.placeholder.com
SearchSimilarCoins(coinId) ==
    /\ Interactive
    /\ LET i == FindCoin(coins, coinId)
       IN  IF i # 0
           THEN /\ searchShown' = {r \in searchShown : r.coin # coinId}
                                     \cup {[coin |-> coinId, query |-> coins[i].metadata]}
                /\ sent' = sent \cup {Request("via.placeholder.com", NoCoinData)}
           ELSE UNCHANGED <<searchShown, sent>>
    /\ UNCHANGED <<pageVars, compareVars, aiServices, aiInit, lastAnalysis, galleryVars, cacheVars>>

\* a click on a displayed result: window.open(result.url, '_blank')
OpenSearchResult(r, site) ==
    /\ Interactive
    /\ r \in searchShown
    /\ sent' = sent \cup {Request(site.host, IF site.query THEN <<r.query>> ELSE NoCoinData)}
    /\ UNCHANGED <<pageVars, compareVars, aiServices, aiInit, lastAnalysis, searchShown, galleryVars, cacheVars>>

(***************************** media gallery *******************************)
\* a media item: title is the string's code units, uploadDate the upload time in
\* ms (0: the item has none), macro whether tags includes 'macro'
MediaItem(id, type, isCurated, isFeatured, source, macro, allowAnnotations, uploadDate, title) ==
    [id |-> id, type |-> type, isCurated |-> isCurated, isFeatured |-> isFeatured,
     source |-> source, macro |-> macro, allowAnnotations |-> allowAnnotations,
     uploadDate |-> uploadDate, title |-> title]

\* "B", "a", "", "A", "ab"
GalleryPool ==
    {MediaItem(1, "image", TRUE, FALSE, "manual", FALSE, FALSE, 2, <<66>>),
     MediaItem(2, "video", FALSE, TRUE, "manual", TRUE, FALSE, 1, <<97>>),
     MediaItem(3, "image", FALSE, FALSE, "ai", FALSE, TRUE, 0, <<>>),
     MediaItem(4, "video", TRUE, TRUE, "ai", TRUE, TRUE, 3, <<65>>),
     MediaItem(5, "image", FALSE, FALSE, "manual", FALSE, FALSE, 2, <<97, 98>>)}

MaxGalleryLen == 3

\* the lists of distinct items of the pool
GalleryLists ==
    {l \in UNION {[1..n -> GalleryPool] : n \in 0..MaxGalleryLen} :
        \A i, j \in DOMAIN l : i # j => l[i].id # l[j].id}

IsImage(media) == media.type = "image"
IsVideo(media) == media.type = "video"

\* the options of the sort select and the filter buttons; setMediaSortMode takes
\* any string
SortModes == {"curated", "chronological", "title", "type"}
AnySortMode == SortModes \cup {"manual"}
MediaFilters == {"all", "featured", "ai", "macro", "video", "annotated"}

\* the switch of applyMediaFilter
PassesFilter(media, filter) ==
    CASE filter = "featured" -> media.isFeatured
      [] filter = "ai" -> media.source = "ai"
      [] filter = "macro" -> media.macro
      [] filter = "video" -> media.type = "video"
      [] filter = "annotated" -> media.allowAnnotations
      [] OTHER -> TRUE

ApplyMediaFilter(mediaList, filter) ==
    IF filter = "all" THEN mediaList
    ELSE SelectSeq(mediaList, LAMBDA media : PassesFilter(media, filter))

\* String.prototype.toLowerCase on one code unit
ToLowerCase(code) == IF code \in 65..90 THEN code + 32 ELSE code

\* a.localeCompare(b) < 0 for strings of lower-case letters
RECURSIVE ComesBefore(_, _)
ComesBefore(a, b) ==
    IF a = <<>> THEN b # <<>>
    ELSE IF b = <<>> THEN FALSE
    ELSE IF a[1] # b[1] THEN a[1] < b[1]
    ELSE ComesBefore(Tail(a), Tail(b))

LowerTitle(media) == [i \in DOMAIN media.title |-> ToLowerCase(media.title[i])]

\* 'image'.localeCompare('video') < 0
TypeOrder(type) == IF type = "image" THEN 1 ELSE IF type = "video" THEN 2 ELSE 0

\* new Date(a.uploadDate), new Date(0) for an item without one
DateOf(media) == IF media.uploadDate # 0 THEN media.uploadDate ELSE 0

\* the comparators of applyMediaSort: compare(a, b) < 0
SortsBefore(a, b, mode) ==
    CASE mode = "curated" -> a.isCurated /\ ~b.isCurated
      [] mode = "chronological" -> DateOf(b) - DateOf(a) < 0
      [] mode = "title" -> ComesBefore(LowerTitle(a), LowerTitle(b))
      [] mode = "type" -> TypeOrder(a.type) < TypeOrder(b.type)
      [] OTHER -> FALSE

\* one element put into a sorted list, behind the elements it does not sort before
InsertSorted(sorted, media, mode) ==
    LET before == {j \in DOMAIN sorted : SortsBefore(media, sorted[j], mode)}
        at == IF before = {} THEN Len(sorted) + 1
              ELSE CHOOSE j \in before : \A k \in before : j <= k
    IN  SubSeq(sorted, 1, at - 1) \o <<media>> \o SubSeq(sorted, at, Len(sorted))

\* Array.prototype.sort, which is stable
RECURSIVE StableSort(_, _)
StableSort(list, mode) ==
    IF list = <<>> THEN <<>>
    ELSE InsertSorted(StableSort(SubSeq(list, 1, Len(list) - 1), mode), list[Len(list)], mode)

\* applyMediaSort without its switch: the copy is returned as it is
KeepOrder(mediaList, mode) == [result |-> mediaList, mediaList |-> mediaList]

\* applyMediaSort: the copy [...mediaList] is sorted; mediaList is the argument
\* array after the call
ApplyMediaSort(mediaList, mode) ==
    [result |-> IF mode \in SortModes THEN StableSort(mediaList, mode) ELSE mediaList,
     mediaList |-> mediaList]

AllMedia(media) == media.images \o media.videos

\* renderMediaGallery up to displayList; sortCall is the applyMediaSort call made
RenderMediaGallery(media, filter, mode) ==
    LET allMedia == AllMedia(media)
        curatedMedia == SelectSeq(allMedia, LAMBDA item : item.isCurated)
        filteredMedia == ApplyMediaFilter(allMedia, filter)
        r == ApplyMediaSort(filteredMedia, mode)
    IN  IF mode = "curated" /\ Len(curatedMedia) > 0
        THEN [displayList |-> curatedMedia, sortCall |-> NoSortCall]
        ELSE [displayList |-> r.result,
              sortCall |-> [called |-> TRUE, mode |-> mode, mediaList |-> filteredMedia,
                            after |-> r.mediaList, result |-> r.result]]

\* renderCoins on the gallery: the coin cards are built again, which also drops
\* the market search results displayed in them
RenderGallery(filter, mode) ==
    LET g == RenderMediaGallery(galleryMedia, filter, mode)
    IN  /\ displayList' = g.displayList
        /\ sortCall' = g.sortCall
        /\ searchShown' = {}
        /\ UNCHANGED <<galleryMedia, aiServices, aiInit, lastAnalysis, sent, cacheVars>>

\* setMediaSortMode(mode)
SetMediaSortMode(mode) ==
    /\ Interactive
    /\ mediaSortMode' = mode
    /\ RenderGallery(mediaFilter, mode)
    /\ SaveToStorage(coins, nextCoinId, nextAnnotationId, expandedCoins)
    /\ UNCHANGED <<pc, coins, currentMode, nextCoinId, nextAnnotationId, expandedCoins,
                   selectedAnnotation, quickAnnotationType, quota, drag, uploads, exported,
                   compareVars, mediaFilter>>

\* setMediaFilter(filter)
SetMediaFilter(filter) ==
    /\ Interactive
    /\ mediaFilter' = filter
    /\ RenderGallery(filter, mediaSortMode)
    /\ SaveToStorage(coins, nextCoinId, nextAnnotationId, expandedCoins)
    /\ UNCHANGED <<pc, coins, currentMode, nextCoinId, nextAnnotationId, expandedCoins,
                   selectedAnnotation, quickAnnotationType, quota, drag, uploads, exported,
                   compareVars, mediaSortMode>>

(************************* signed media URLs ********************************)
\* createSignedUrl(path, 6000), and the 60 seconds taken off for the cache
SignedSeconds == 6000
BufferSeconds == 60

\* the steps the clock is advanced by, and how often
TimeSteps == {1, BufferSeconds, SignedSeconds - BufferSeconds - 1}
MaxTicks == 3
MaxRequests == 2

Tick(d) ==
    /\ ticks < MaxTicks
    /\ clock' = clock + d
    /\ ticks' = ticks + 1
    /\ UNCHANGED <<pageVars, compareVars, aiServices, aiInit, lastAnalysis, searchShown, sent, galleryVars,
                   signedUrlCache, sessionCache, storageInitialized, requests, lastReturn,
                   lastLoad>>

\* expiresAt: now + (6000 - 60) * 1000, in seconds
ExpiresAt(now) == now + (SignedSeconds - BufferSeconds)

\* loadCacheFromSession's cleaning: delete the entries with expiresAt < now
CleanExpired(cache, now) ==
    [p \in Paths |-> IF cache[p].present /\ cache[p].expiresAt < now THEN NoEntry
                     ELSE cache[p]]

\* signedUrlCache[cacheKey] && signedUrlCache[cacheKey].expiresAt > now
CacheHit(cache, path, now) == cache[path].present /\ cache[path].expiresAt > now

\* initializeStorage up to its await: the flag is set and loadCacheFromSession reads
\* sessionStorage; a second call returns at once
InitializeStorage ==
    /\ ~storageInitialized
    /\ storageInitialized' = TRUE
    /\ IF sessionCache.present
       THEN /\ signedUrlCache' = CleanExpired(sessionCache.cache, clock)
            /\ lastLoad' = [loaded |-> TRUE, at |-> clock, stored |-> sessionCache.cache,
                            kept |-> signedUrlCache']
       ELSE UNCHANGED <<signedUrlCache, lastLoad>>
    /\ UNCHANGED <<pageVars, compareVars, aiServices, aiInit, lastAnalysis, searchShown, sent, galleryVars,
                   clock, ticks, sessionCache, requests, lastReturn>>

\* getSignedMediaUrl(path) up to its first await: a valid entry is returned,
\* otherwise createSignedUrl is asked
GetSignedMediaUrl(path) ==
    /\ storageInitialized
    /\ LET now == clock
       IN  IF CacheHit(signedUrlCache, path, now)
           THEN /\ lastReturn' = [returned |-> TRUE, path |-> path, fromCache |-> TRUE,
                                  now |-> now, at |-> clock,
                                  signedAt |-> signedUrlCache[path].signedAt,
                                  entry |-> signedUrlCache[path]]
                /\ UNCHANGED requests
           ELSE /\ Cardinality(requests) < MaxRequests
                /\ requests' = requests \cup {[path |-> path, now |-> now]}
                /\ UNCHANGED lastReturn
    /\ UNCHANGED <<pageVars, compareVars, aiServices, aiInit, lastAnalysis, searchShown, sent, galleryVars,
                   clock, ticks, signedUrlCache, sessionCache, storageInitialized, lastLoad>>

\* saveCacheToSession
SaveCacheToSession(cache) == sessionCache' = [present |-> TRUE, cache |-> cache]

\* createSignedUrl answers a waiting call: with an error, which is thrown, or with
\* a url signed at this instant, which is cached from the call's start and saved
SignedUrlResponse(req, error) ==
    /\ req \in requests
    /\ requests' = requests \ {req}
    /\ IF error
       THEN UNCHANGED <<signedUrlCache, sessionCache, lastReturn>>
       ELSE /\ signedUrlCache' =
                   [signedUrlCache EXCEPT ![req.path] = Entry(clock, ExpiresAt(req.now))]
            /\ SaveCacheToSession(signedUrlCache')
            /\ lastReturn' = [returned |-> TRUE, path |-> req.path, fromCache |-> FALSE,
                              now |-> req.now, at |-> clock, signedAt |-> clock,
                              entry |-> signedUrlCache'[req.path]]
    /\ UNCHANGED <<pageVars, compareVars, aiServices, aiInit, lastAnalysis, searchShown, sent, galleryVars,
                   clock, ticks, storageInitialized, lastLoad>>

\* uploadMediaFile(file, path) after a successful upload: the path's entry is
\* deleted and the cache saved
UploadMediaFile(path) ==
    /\ storageInitialized
    /\ signedUrlCache' = [signedUrlCache EXCEPT ![path] = NoEntry]
    /\ SaveCacheToSession(signedUrlCache')
    /\ UNCHANGED <<pageVars, compareVars, aiServices, aiInit, lastAnalysis, searchShown, sent, galleryVars,
                   clock, ticks, storageInitialized, requests, lastReturn, lastLoad>>

(******************************* export ************************************)
BaseExportKeys == {"id", "title", "description", "metadata", "condition",
                   "created", "modified"}

\* exportCollection that copies the notes whether or not they were asked for
ExportCoinAlwaysNotes(coin, includeImages, includeAnnotations, includeValuations, includeNotes) ==
    LET keys == BaseExportKeys
                \cup (IF includeImages THEN {"images"} ELSE {})
                \cup (IF includeAnnotations THEN {"annotations"} ELSE {})
                \cup (IF includeValuations THEN {"valuation"} ELSE {})
                \cup {"notes"}
    IN  [k \in keys |-> coin[k]]

\* the record exportCollection builds for one coin
ExportCoin(coin, includeImages, includeAnnotations, includeValuations, includeNotes) ==
    LET keys == BaseExportKeys
                \cup (IF includeImages THEN {"images"} ELSE {})
                \cup (IF includeAnnotations THEN {"annotations"} ELSE {})
                \cup (IF includeValuations THEN {"valuation"} ELSE {})
                \cup (IF includeNotes THEN {"notes"} ELSE {})
    IN  [k \in keys |-> coin[k]]

\* performExport: json, csv and html are downloaded, anything else alerts
PerformExportDownloads(format) == format \in {"json", "csv", "html"}

\* exportCollection: the options of the export modal, then performExport
ExportCollection(format, includeImages, includeAnnotations, includeValuations, includeNotes) ==
    /\ Interactive
    /\ exported' =
         [format |-> format, images |-> includeImages, annotations |-> includeAnnotations,
          valuations |-> includeValuations, notes |-> includeNotes,
          data |-> [i \in DOMAIN coins |->
                      ExportCoin(coins[i], includeImages, includeAnnotations,
                                 includeValuations, includeNotes)],
          downloaded |-> PerformExportDownloads(format),
          alerted |-> ~PerformExportDownloads(format)]
    /\ NoSave
    /\ UNCHANGED <<pc, coins, currentMode, nextCoinId, nextAnnotationId, expandedCoins,
                   selectedAnnotation, quickAnnotationType, quota, drag, uploads,
                   compareVars, others>>

(**************************** specification ********************************)
Next ==
    \/ Construct
    \/ InitSample
    \/ Reload
    \/ AddCoin
    \/ \E c \in AnyCoinId : DeleteCoin(c)
    \/ \E c \in AnyCoinId : UpdateCoin(c, "worn")
    \/ \E c \in AnyCoinId : ToggleCoinExpansion(c)
    \/ AutoSave
    \/ \E m \in Modes : SetMode(m)
    \/ \E t \in QuickTypes : SetQuickAnnotationType(t)
    \/ \E c \in AnyCoinId, sd \in SideSet, p \in Points : AddAnnotation(c, sd, p)
    \/ \E c \in AnyCoinId, sd \in SideSet, p \in Points : HandleImageClick(c, sd, p)
    \/ \E m \in Markers : HandleAnnotationMouseDown(m)
    \/ \E p \in Points : HandleMouseMove(p)
    \/ HandleMouseUp
    \/ \E m \in Markers : EditAnnotation(m)
    \/ \E input \in ModalInputs : SaveAnnotation(input)
    \/ EscapeKey
    \/ \E m \in Markers : RemoveAnnotation(m)
    \/ \E c \in AnyCoinId, sd \in SideSet, f \in Files : HandleImageUpload(c, sd, f)
    \/ \E u \in uploads : UploadImageEvent(u)
    \/ \E c \in AnyCoinId, sd \in SideSet : DeleteImage(c, sd)
    \/ \E c \in AnyCoinId, f \in Files : HandleMediaUpload(c, f)
    \/ \E c \in AnyCoinId, id \in 1..MaxMediaPerCoin : RemoveMedia(c, id)
    \/ \E f \in ExportFormats, o \in [1..4 -> BOOLEAN] : ExportCollection(f, o[1], o[2], o[3], o[4])
    \/ SaveImageLoaded
    \/ SaveImageError
    \/ ToggleComparisonView
    \/ \E c \in AnyCoinId : AddToComparison(c)
    \/ \E c \in AnyCoinId : RemoveFromComparison(c)
    \/ ClearComparison
    \/ InitializeAIOrchestrator
    \/ OfflineModelInitialized
    \/ \E sv \in ServiceNames : ServiceResolved(sv)
    \/ \E c \in AnyCoinId, sd \in SideSet, ok \in BOOLEAN : AnalyzeImage(c, sd, ok)
    \/ \E c \in AnyCoinId : SearchSimilarCoins(c)
    \/ \E r \in searchShown, site \in SearchSites : OpenSearchResult(r, site)
    \/ \E mode \in AnySortMode : SetMediaSortMode(mode)
    \/ \E filter \in MediaFilters : SetMediaFilter(filter)
    \/ \E d \in TimeSteps : Tick(d)
    \/ InitializeStorage
    \/ \E p \in Paths : GetSignedMediaUrl(p)
    \/ \E req \in requests, error \in BOOLEAN : SignedUrlResponse(req, error)
    \/ \E p \in Paths : UploadMediaFile(p)

Spec == Init /\ [][Next]_vars

(* The annotation handlers on a fresh page with room in localStorage *)
InitAnnot ==
    /\ Unloaded
    /\ OthersIdle
    /\ savedMem = NotSaved
    /\ storage = EmptyStore
    /\ quota = (5 * 1024 * 1024) \div 2

NextAnnot ==
    \/ Construct
    \/ InitSample
    \/ \E m \in Modes : SetMode(m)
    \/ \E c \in AnyCoinId, sd \in SideSet, p \in Points : HandleImageClick(c, sd, p)
    \/ \E m \in Markers : HandleAnnotationMouseDown(m)
    \/ \E p \in Points : HandleMouseMove(p)
    \/ HandleMouseUp
    \/ \E m \in Markers : EditAnnotation(m)
    \/ \E input \in ModalInputs : SaveAnnotation(input)
    \/ EscapeKey
    \/ \E m \in Markers : RemoveAnnotation(m)

SpecAnnot == InitAnnot /\ [][NextAnnot]_vars

(* Adding annotations, with several coins *)
NextAdd ==
    \/ Construct
    \/ InitSample
    \/ AddCoin
    \/ \E c \in AnyCoinId : DeleteCoin(c)
    \/ \E m \in Modes : SetMode(m)
    \/ \E t \in QuickTypes : SetQuickAnnotationType(t)
    \/ \E c \in AnyCoinId, sd \in SideSet, p \in Points : AddAnnotation(c, sd, p)
    \/ \E c \in AnyCoinId, sd \in SideSet, p \in Points : HandleImageClick(c, sd, p)

SpecAdd == InitAnnot /\ [][NextAdd]_vars

(* The snapshot in localStorage: every quota, a store left by an earlier session *)
NextStore ==
    \/ Construct
    \/ InitSample
    \/ Reload
    \/ \E c \in AnyCoinId : DeleteCoin(c)
    \/ \E c \in AnyCoinId : UpdateCoin(c, "worn")
    \/ \E c \in AnyCoinId : ToggleCoinExpansion(c)
    \/ AutoSave
    \/ \E c \in AnyCoinId, p \in Points : HandleImageClick(c, "reverse", p)
    \/ \E c \in AnyCoinId, sd \in SideSet : DeleteImage(c, sd)
    \/ \E c \in AnyCoinId, f \in Files : HandleMediaUpload(c, f)
    \/ \E c \in AnyCoinId, id \in 1..MaxMediaPerCoin : RemoveMedia(c, id)
    \/ SaveImageLoaded
    \/ SaveImageError

SpecStore == Init /\ [][NextStore]_vars

(* Image upload: the browser delivers the load or error event of every image
   it was given, so the event of a pending upload is not postponed for ever *)
NextUpload ==
    \/ Construct
    \/ InitSample
    \/ AddCoin
    \/ \E c \in AnyCoinId : ToggleCoinExpansion(c)
    \/ \E c \in AnyCoinId, sd \in SideSet, f \in Files : HandleImageUpload(c, sd, f)
    \/ \E u \in uploads : UploadImageEvent(u)

SpecUpload ==
    /\ InitAnnot
    /\ [][NextUpload]_vars
    /\ WF_vars(Construct)
    /\ WF_vars(InitSample)
    /\ WF_vars(\E u \in uploads : UploadImageEvent(u))

(* Export of a collection that is edited between exports *)
NextExport ==
    \/ Construct
    \/ InitSample
    \/ AddCoin
    \/ \E c \in AnyCoinId : UpdateCoin(c, "worn")
    \/ \E c \in AnyCoinId : HandleMediaUpload(c, [type |-> "video", len |-> 50000])
    \/ \E f \in ExportFormats, o \in [1..4 -> BOOLEAN] :
          ExportCollection(f, o[1], o[2], o[3], o[4])

SpecExport == InitAnnot /\ [][NextExport]_vars

(* The comparison slots while coins are added, edited and deleted *)
NextCompare ==
    \/ Construct
    \/ InitSample
    \/ AddCoin
    \/ \E c \in AnyCoinId : DeleteCoin(c)
    \/ \E c \in AnyCoinId : UpdateCoin(c, "worn")
    \/ ToggleComparisonView
    \/ \E c \in AnyCoinId : AddToComparison(c)
    \/ \E c \in AnyCoinId : RemoveFromComparison(c)
    \/ ClearComparison

SpecCompare == InitAnnot /\ [][NextCompare]_vars

(* What leaves the browser: AI analysis and market search on a stored collection *)
InitPrivacy ==
    /\ Unloaded
    /\ OthersIdle
    /\ savedMem = NotSaved
    /\ storage \in {EmptyStore, PriorStore}
    /\ quota = (5 * 1024 * 1024) \div 2

NextPrivacy ==
    \/ Construct
    \/ InitSample
    \/ \E c \in AnyCoinId : ToggleCoinExpansion(c)
    \/ \E c \in AnyCoinId : HandleMediaUpload(c, [type |-> "video", len |-> 50000])
    \/ InitializeAIOrchestrator
    \/ OfflineModelInitialized
    \/ \E sv \in ServiceNames : ServiceResolved(sv)
    \/ \E c \in AnyCoinId, sd \in SideSet, ok \in BOOLEAN : AnalyzeImage(c, sd, ok)
    \/ \E c \in AnyCoinId : SearchSimilarCoins(c)
    \/ \E r \in searchShown, site \in SearchSites : OpenSearchResult(r, site)

SpecPrivacy == InitPrivacy /\ [][NextPrivacy]_vars

(* The media gallery of a coin whose media were curated, featured and tagged *)
InitGallery ==
    /\ Unloaded
    /\ ModulesIdle
    /\ GalleryIdle
    /\ SessionIdle
    /\ \E l \in GalleryLists :
          galleryMedia = [images |-> SelectSeq(l, IsImage), videos |-> SelectSeq(l, IsVideo)]
    /\ savedMem = NotSaved
    /\ storage = EmptyStore
    /\ quota = (5 * 1024 * 1024) \div 2

NextGallery ==
    \/ Construct
    \/ InitSample
    \/ \E mode \in AnySortMode : SetMediaSortMode(mode)
    \/ \E filter \in MediaFilters : SetMediaFilter(filter)

SpecGallery == InitGallery /\ [][NextGallery]_vars

(* The signed URL cache over page loads of one tab *)
NextCache ==
    \/ Construct
    \/ InitSample
    \/ Reload
    \/ \E d \in TimeSteps : Tick(d)
    \/ InitializeStorage
    \/ \E p \in Paths : GetSignedMediaUrl(p)
    \/ \E req \in requests, error \in BOOLEAN : SignedUrlResponse(req, error)
    \/ \E p \in Paths : UploadMediaFile(p)

SpecCache == InitAnnot /\ [][NextCache]_vars

(* The AI services from their initialization on; a then-callback of a resolved
   promise always gets to run *)
NextAI ==
    \/ Construct
    \/ InitSample
    \/ \E c \in AnyCoinId : ToggleCoinExpansion(c)
    \/ \E c \in AnyCoinId : UpdateCoin(c, "worn")
    \/ InitializeAIOrchestrator
    \/ OfflineModelInitialized
    \/ \E sv \in ServiceNames : ServiceResolved(sv)
    \/ \E c \in AnyCoinId, sd \in SideSet, ok \in BOOLEAN : AnalyzeImage(c, sd, ok)

SpecAI ==
    /\ InitPrivacy
    /\ [][NextAI]_vars
    /\ \A sv \in ServiceNames : WF_vars(ServiceResolved(sv))

(******************************* claims ************************************)
MemNow == Mem(coins, nextCoinId, nextAnnotationId, expandedCoins)

SnapshotMatches ==
    /\ storage.coinCollection = CoinsText(coins)
    /\ storage.coinCollectionMeta =
           MetaText(MetaOf(nextCoinId, nextAnnotationId, expandedCoins))

\* C1 as stated: once the saveToStorage call of a handler has completed, with the
\* data saved or with the quota alert, the snapshot under coinCollection and
\* coinCollectionMeta equals coins, nextCoinId, nextAnnotationId and expandedCoins
C1_SnapshotAfterEverySave ==
    saveOutcome \in {"saved", "alerted"} => SnapshotMatches

\* C1 amended: the snapshot equals the in-memory state after every save that ended
\* with its data written, directly or after compression
C1_SnapshotAfterSuccessfulSave ==
    saveOutcome = "saved" => SnapshotMatches

\* a save above the 4MB threshold that compressed and then wrote
C1_Witness ==
    /\ saveOutcome = "saved"
    /\ lastWrite.path = "retry"
    /\ coins # <<>>

C4_LoadRestoresSave ==
    pc = "loaded" =>
        /\ savedMem.valid => MemNow = savedMem.mem
        /\ storage = EmptyStore => MemNow = Defaults

\* a reload after a save of a collection with an added annotation and an
\* expanded coin
C4_Witness ==
    /\ pc = "loaded"
    /\ savedMem.valid
    /\ coins # <<>>
    /\ expandedCoins # <<>>
    /\ nextAnnotationId > FirstAnnotationId

\* C5 as stated: while currentMode is 'view', no interaction with annotations
\* (a click on the overlay, a drag of a marker, a double click followed by
\* saveAnnotation, a marker's remove button) changes any coin's annotations
C5_ViewModePreventsEdits ==
    [][currentMode = "view" => AllAnnotations(coins') = AllAnnotations(coins)]_vars

\* the effect C6 gives addAnnotation(coinId, side, x, y)
AddAnnotationFrame(coinId, side, p) ==
    IF currentMode = "annotate" /\ coinId \in CoinIds(coins)
    THEN LET i == FindCoin(coins, coinId)
             old == coins[i].annotations[side]
             new == coins'[i].annotations[side]
         IN  /\ DOMAIN coins' = DOMAIN coins
             /\ Len(new) = Len(old) + 1
             /\ SubSeq(new, 1, Len(old)) = old
             /\ new[Len(new)].id = nextAnnotationId
             /\ new[Len(new)].x = p[1]
             /\ new[Len(new)].y = p[2]
             /\ nextAnnotationId' = nextAnnotationId + 1
             /\ \A j \in DOMAIN coins, sd \in SideSet :
                    <<j, sd>> # <<i, side>>
                        => coins'[j].annotations[sd] = coins[j].annotations[sd]
    ELSE UNCHANGED <<coins, nextAnnotationId>>

\* C6: in annotate mode addAnnotation(coinId, side, x, y) on an existing coin
\* appends one annotation with those coordinates and the id nextAnnotationId to
\* that coin's list for that side, adds one to nextAnnotationId and changes no
\* other annotation list; in another mode or for an unknown coin it changes nothing
C6_AddAnnotationFrameEffect ==
    [][\A c \in AnyCoinId, sd \in SideSet, p \in Points :
          AddAnnotation(c, sd, p) => AddAnnotationFrame(c, sd, p)]_vars

\* the second coin has received the annotation with the first id
C6_Witness ==
    /\ Len(coins) = 2
    /\ \E sd \in SideSet : \E k \in DOMAIN coins[2].annotations[sd] :
          /\ coins[2].annotations[sd][k].id = FirstAnnotationId
          /\ <<coins[2].annotations[sd][k].x, coins[2].annotations[sd][k].y>> \in Points
    /\ nextAnnotationId = FirstAnnotationId + 1

\* the effect C7 gives a move of the pointer during a drag
DragFrame(p) ==
    /\ DOMAIN coins' = DOMAIN coins
    /\ \A i \in DOMAIN coins, sd \in SideSet :
          /\ Len(coins'[i].annotations[sd]) = Len(coins[i].annotations[sd])
          /\ \A k \in DOMAIN coins[i].annotations[sd] :
                coins'[i].annotations[sd][k] =
                    IF <<i, sd, k>> = <<drag.coin, drag.side, drag.index>>
                    THEN [coins[i].annotations[sd][k] EXCEPT !.x = p[1], !.y = p[2]]
                    ELSE coins[i].annotations[sd][k]

\* C7 as stated: in move mode a drag of a marker changes the x and y of that one
\* annotation and nothing else of any annotation; in annotate and view mode a
\* drag changes nothing
C7_DragMovesOnlyThatAnnotation ==
    [][/\ \A p \in Points : HandleMouseMove(p) => DragFrame(p)
       /\ \A m \in Markers :
             (currentMode # "move" /\ HandleAnnotationMouseDown(m))
                 => (~drag'.active /\ UNCHANGED coins)]_vars

\* an image upload for an existing coin is waiting for its image to load
UploadPending(c, sd) ==
    /\ c \in CoinIds(coins)
    /\ \E u \in uploads : u.coin = c /\ u.side = sd

\* the coin's image of that side is set and the collection is saved with it
UploadStored(c, sd) ==
    /\ c \in CoinIds(coins)
    /\ coins[FindCoin(coins, c)].images[sd] # NoImage
    /\ storage.coinCollection = CoinsText(coins)

\* C8 as stated: after handleImageUpload(coinId, side, input) with an image file
\* for an existing coin, the coin's images[side] eventually holds the compressed
\* data URL and the collection is saved
C8_UploadEventuallyStored ==
    \A c \in 1..MaxCoinId, sd \in SideSet : UploadPending(c, sd) ~> UploadStored(c, sd)

\* what C9 says of one exported record
SelectiveRecord(rec, coin, includeImages, includeAnnotations, includeValuations, includeNotes) ==
    /\ BaseExportKeys \subseteq DOMAIN rec
    /\ ("images" \in DOMAIN rec) = includeImages
    /\ ("annotations" \in DOMAIN rec) = includeAnnotations
    /\ ("valuation" \in DOMAIN rec) = includeValuations
    /\ ("notes" \in DOMAIN rec) = includeNotes
    /\ \A k \in DOMAIN rec : k \in DOMAIN coin /\ rec[k] = coin[k]

\* C9: every exported coin record holds id, title, description, metadata,
\* condition, created and modified, and holds images, annotations, valuation and
\* notes each exactly when its include option is selected; exportCollection does
\* not modify the collection
C9_SelectiveExport ==
    [][\A f \in ExportFormats, o \in [1..4 -> BOOLEAN] :
          ExportCollection(f, o[1], o[2], o[3], o[4]) =>
              /\ UNCHANGED <<coins, nextCoinId, nextAnnotationId, expandedCoins, storage>>
              /\ DOMAIN exported'.data = DOMAIN coins
              /\ \A i \in DOMAIN coins :
                    SelectiveRecord(exported'.data[i], coins[i], o[1], o[2], o[3], o[4])]_vars

\* an export of two coins with images and valuations selected, annotations and
\* notes not
C9_Witness ==
    /\ exported.format = "json"
    /\ Len(exported.data) = 2
    /\ exported.images /\ exported.valuations
    /\ ~exported.annotations /\ ~exported.notes
    /\ \A i \in DOMAIN exported.data :
          /\ {"images", "valuation"} \subseteq DOMAIN exported.data[i]
          /\ {"annotations", "notes"} \cap DOMAIN exported.data[i] = {}

\* C10 as stated: a JSON export with every include option selected holds every
\* coin with every field the coin has in memory, media gallery included, so the
\* collection can be rebuilt from it
C10_JsonExportComplete ==
    [][ExportCollection("json", TRUE, TRUE, TRUE, TRUE) => exported'.data = coins]_vars

\* C11 as stated: performExport downloads one file for each of the formats json,
\* csv, html and pdf, and for any other format alerts and downloads nothing
C11_EveryFormatDownloads ==
    exported.format # "" =>
        IF exported.format \in {"json", "csv", "html", "pdf"}
        THEN exported.downloaded /\ ~exported.alerted
        ELSE exported.alerted /\ ~exported.downloaded

\* the slots C12 gives addToComparison(coinId)
ComparisonFrame(coinId) ==
    IF coinId \in CoinIds(coins)
    THEN LET coin == coins[FindCoin(coins, coinId)]
         IN  IF comparisonSlots[1] = <<>>
             THEN comparisonSlots' = << <<coin>>, comparisonSlots[2] >>
             ELSE IF comparisonSlots[2] = <<>>
             THEN comparisonSlots' = << comparisonSlots[1], <<coin>> >>
             ELSE comparisonSlots' = << <<coin>>, comparisonSlots[2] >>
    ELSE UNCHANGED comparisonSlots

\* C12: addToComparison(coinId) for an existing coin stores the coin in the first
\* slot if that is empty, else in the second slot if that is empty, else in place
\* of the first slot; for an unknown coin id both slots stay as they are
C12_AddToComparisonSlots ==
    [][\A c \in AnyCoinId : AddToComparison(c) => ComparisonFrame(c)]_vars

\* the second coin went into both slots, was edited, and was then added again:
\* the first slot holds the edited coin, the second the coin as it was
C12_Witness ==
    /\ comparisonSlots[1] # <<>> /\ comparisonSlots[2] # <<>>
    /\ comparisonSlots[1][1].id = 2 /\ comparisonSlots[1][1].notes = "worn"
    /\ comparisonSlots[2][1].id = 2 /\ comparisonSlots[2][1].notes = ""

Rendered == pc = "ready" /\ (sortCall.called \/ displayList # <<>>)

SamePermutation(a, b) ==
    /\ Len(a) = Len(b)
    /\ \A x \in {a[i] : i \in DOMAIN a} \cup {b[i] : i \in DOMAIN b} :
          Cardinality({i \in DOMAIN a : a[i] = x}) = Cardinality({i \in DOMAIN b : b[i] = x})

\* what C16 says of one applyMediaSort call
SortedAsStated(mediaList, mode, r) ==
    /\ SamePermutation(r.result, mediaList)
    /\ r.mediaList = mediaList
    /\ mode = "chronological" =>
          \A i, j \in DOMAIN r.result : i < j =>
              /\ r.result[i].uploadDate >= r.result[j].uploadDate
              /\ r.result[i].uploadDate = 0 => r.result[j].uploadDate = 0
    /\ mode = "title" =>
          \A i, j \in DOMAIN r.result : i < j =>
              ~ComesBefore(LowerTitle(r.result[j]), LowerTitle(r.result[i]))
    /\ mode = "type" =>
          \A i, j \in DOMAIN r.result : i < j =>
              TypeOrder(r.result[i].type) <= TypeOrder(r.result[j].type)
    /\ mode = "curated" =>
          \A i, j \in DOMAIN r.result : i < j =>
              ~(~r.result[i].isCurated /\ r.result[j].isCurated)
    /\ mode \notin SortModes => r.result = mediaList

\* C16: applyMediaSort returns a permutation of its input and leaves the input and
\* the coin's media as they were; 'chronological' puts the newest first and the
\* undated last, 'title' orders by lower-cased title, 'type' by type, 'curated' puts
\* curated items first, any other mode keeps the order. Checked on the call the
\* last render made and on the coin's whole media under every mode.
C16_ApplyMediaSort ==
    /\ sortCall.called =>
          SortedAsStated(sortCall.mediaList, sortCall.mode,
                         [result |-> sortCall.result, mediaList |-> sortCall.after])
    /\ \A mode \in AnySortMode :
          SortedAsStated(AllMedia(galleryMedia), mode,
                         ApplyMediaSort(AllMedia(galleryMedia), mode))

\* a render sorted an undated item behind a dated one it stood before
C16_Witness ==
    /\ sortCall.called
    /\ sortCall.mode = "chronological"
    /\ sortCall.result # sortCall.mediaList
    /\ Len(sortCall.result) >= 2
    /\ sortCall.mediaList[1].uploadDate = 0
    /\ sortCall.result[Len(sortCall.result)].uploadDate = 0

\* the seconds for which the url getSignedMediaUrl last returned stays valid
ValidityLeft == (lastReturn.signedAt + SignedSeconds) - lastReturn.at

\* C17, the parts on serving and on generating: a url returned from the cache
\* has at least 60 seconds of validity left and is returned only while now <
\* expiresAt; a url returned after a miss is new and is cached with expiresAt =
\* start of the call + 5940 seconds
ServedAsStated ==
    /\ (lastReturn.returned /\ lastReturn.fromCache) =>
          /\ ValidityLeft >= BufferSeconds
          /\ lastReturn.at < lastReturn.entry.expiresAt
    /\ (lastReturn.returned /\ ~lastReturn.fromCache) =>
          /\ lastReturn.signedAt >= lastReturn.now
          /\ lastReturn.entry =
                Entry(lastReturn.signedAt, lastReturn.now + (SignedSeconds - BufferSeconds))
    /\ \A p \in Paths : signedUrlCache[p].present =>
          signedUrlCache[p].expiresAt <= signedUrlCache[p].signedAt + (SignedSeconds - BufferSeconds)

\* C17 as stated: served and generated as above, and a load from sessionStorage
\* leaves no expired entry, one with expiresAt <= now, in the cache
C17_ExpiredDroppedOnLoad ==
    /\ ServedAsStated
    /\ lastLoad.loaded =>
          \A p \in Paths : lastLoad.kept[p].present => lastLoad.kept[p].expiresAt > lastLoad.at

\* the first initialized service in the order proxy, public, offline
FirstInitialized(services) ==
    IF services.proxy THEN "proxy"
    ELSE IF services.public THEN "public"
    ELSE IF services.offline THEN "offline"
    ELSE "none"

AnalysisAsStated ==
    lastAnalysis.called =>
        /\ lastAnalysis.service = FirstInitialized(lastAnalysis.services)
        /\ lastAnalysis.tried =
              IF lastAnalysis.service = "none" THEN <<>> ELSE <<lastAnalysis.service>>
        /\ lastAnalysis.error =
              IF lastAnalysis.service = "none" THEN "AI services are not ready yet."
              ELSE "none"

AllResolved == \A s \in ServiceNames : aiInit[s] \in {"resolved", "set"}
AllSet == \A s \in ServiceNames : aiServices[s]

====
